---- MODULE Spec2Model ----
(***************************************************************************)
(* confd backends: the rancher metadata client (treeWalk, testConnection,  *)
(* WatchPrefix), the zookeeper client (nodeWalk, GetValues, watch,         *)
(* WatchPrefix) and the ssm/kinesis client (GetValues, WatchPrefix).       *)
(*                                                                         *)
(* Go strings that the code inspects character by character (paths, key    *)
(* filters, parameter names) are sequences of one-character strings;       *)
(* strings that the code only builds and compares (flattened keys and      *)
(* values) are TLA+ strings.  A Go error value is a tuple, nil is <<>>.    *)
(***************************************************************************)
EXTENDS Integers, Sequences, FiniteSets, TLC

VARIABLES
    \* rancher Client.testConnection
    bootPc,        \* "loop" | "done"
    bootI,         \* the loop variable i (seconds)
    bootErr,       \* the local err
    bootOutcomes,  \* result of every makeMetaDataRequest("/") made so far
    bootWaits,     \* argument of every time.Sleep made so far
    bootRet,       \* value returned by testConnection / Configure
    \* rancher Client.WatchPrefix
    rwPc, rwPrefix, rwKeys, rwWaitIndex, rwRet,
    \* rancher treeWalk
    flPc, flTree, flFirst, flSecond,
    \* ssm Client.WatchPrefix, called twice in a row
    ssmStream,         \* the records of the kinesis shard, oldest first
    ssmKeys,           \* the keys argument
    ssmStop,           \* whether stopChan has a value to deliver
    ssmCall,           \* 0 (idle), 1 or 2: which call is running
    ssmPc,             \* position inside the running call
    ssmShardIterator,  \* the local shardIterator
    ssmWaitIndex,      \* per call: the waitIndex argument
    ssmRet,            \* per call: the returned (cursor, err)
    ssmStart,          \* per call: the first shard iterator it had
    ssmLatest,         \* per call: whether it asked for the LATEST iterator
    ssmFetched,        \* per call: stream indexes GetRecords delivered to it
    ssmExamined,       \* per call: stream indexes it decoded
    \* zookeeper Client.WatchPrefix and the watch goroutines it starts
    zkStore,       \* the node tree: path -> data, for every existing node
    zkPrefix, zkKeys, zkWaitIndex,   \* the arguments
    zkStop,        \* whether stopChan has a value to deliver
    zkPc,          \* "call" | "select" | "done"
    zkWalk,        \* the GetValues call of the snapshot, as far as it has got
    zkEntries,     \* entries, the snapshot GetValues returned
    zkRet,         \* the returned (cursor, err)
    zkExit,        \* which return statement was taken
    zkCancel,      \* whether cancelRoutine is closed
    gTarget,       \* per goroutine: the key it watches
    gPc,           \* per goroutine: its position in watch
    gKeyCh,        \* per goroutine: state of keyEventCh
    gChildCh,      \* per goroutine: state of childEventCh
    gResp,         \* per goroutine: the watchResponse it is sending
    gSends,        \* per goroutine: number of sends on respChan it has started
    zkChanges,     \* number of changes made to the tree so far
    zkFailures,    \* number of failed GetW/ChildrenW calls so far
    zkRelChanged,  \* a node matching a filter key changed while the call was blocked
    zkLeafChanged, \* a subscribed snapshot key had its value changed
    \* zookeeper Client.GetValues, then the snapshot and the spawning of
    \* Client.WatchPrefix, on one unchanging tree
    zwPc,          \* "call" | "got" | "done"
    zwStore,       \* the node tree
    zwKeys,        \* the keys argument of both calls
    zwFailing,     \* the paths on which backend operations fail
    zwGot,         \* what GetValues(keys) returned: [vars, err]
    zwPrefix,      \* the prefix argument of WatchPrefix
    zwSnap,        \* WatchPrefix up to its select: [err, proceeded, entries, spawned]
    \* ssm Client.GetValues
    sgPc,          \* "call" | "done"
    sgParams,      \* the parameter store: name -> value
    sgKeys,        \* the keys argument
    sgFaults,      \* the backend calls that fail
    sgRet          \* what GetValues returned

bootVars == <<bootPc, bootI, bootErr, bootOutcomes, bootWaits, bootRet>>
rwVars   == <<rwPc, rwPrefix, rwKeys, rwWaitIndex, rwRet>>
flVars   == <<flPc, flTree, flFirst, flSecond>>
ssmVars  == <<ssmStream, ssmKeys, ssmStop, ssmCall, ssmPc, ssmShardIterator, ssmWaitIndex,
              ssmRet, ssmStart, ssmLatest, ssmFetched, ssmExamined>>
zkVars   == <<zkStore, zkPrefix, zkKeys, zkWaitIndex, zkStop, zkPc, zkWalk, zkEntries,
              zkRet, zkExit, zkCancel, gTarget, gPc, gKeyCh, gChildCh, gResp, gSends, zkChanges,
              zkFailures, zkRelChanged, zkLeafChanged>>
zwVars   == <<zwPc, zwStore, zwKeys, zwFailing, zwGot, zwPrefix, zwSnap>>
sgVars   == <<sgPc, sgParams, sgKeys, sgFaults, sgRet>>
vars     == <<bootVars, rwVars, flVars, ssmVars, zkVars, zwVars, sgVars>>

\* The nil error.
Nil == <<>>

TransportError(n) == <<"transport", n>>

RECURSIVE SumSeq(_)
SumSeq(s) == IF s = <<>> THEN 0 ELSE Head(s) + SumSeq(Tail(s))

RECURSIVE Pow2(_)
Pow2(n) == IF n = 0 THEN 1 ELSE 2 * Pow2(n - 1)

(***************************************************************************)
(* rancher: ConnectionBootstrap (Client.testConnection, Client.Configure)  *)
(***************************************************************************)

\* Number of distinct transport errors a probe can fail with.
NumProbeErrors == 3

\* maxTime := 20 * time.Second, in seconds.
MaxTime == 20

\* What one makeMetaDataRequest("/") can give: nil, or one of the errors.
ProbeResults == {Nil} \cup {TransportError(n) : n \in 1..NumProbeErrors}

\* Faulty variant of BootNextWait: a linear backoff.
BootNextWaitSlow(i) == i + 1

\* The for-loop's post statement, i *= time.Duration(2).
BootNextWait(i) == i * 2

\* Faulty variant of BootWaitsAfter: the sleep follows every probe.
BootWaitsAfterAlways(r, waits, i) == Append(waits, i)

\* The sleeps made so far after a probe with result r: time.Sleep(i) is in
\* the err != nil branch only.
BootWaitsAfter(r, waits, i) == IF r # Nil THEN Append(waits, i) ELSE waits

BootIdle ==
    /\ bootPc = "idle" /\ bootI = 0 /\ bootErr = Nil
    /\ bootOutcomes = <<>> /\ bootWaits = <<>> /\ bootRet = Nil

\* var err error; maxTime := ...; i := 1 * time.Second
BootInit ==
    /\ bootPc = "loop"
    /\ bootI = 1
    /\ bootErr = Nil
    /\ bootOutcomes = <<>>
    /\ bootWaits = <<>>
    /\ bootRet = Nil

\* One iteration of the loop: the probe, then either the sleep and the
\* post statement, or the return of nil.
Probe ==
    /\ bootPc = "loop"
    /\ bootI < MaxTime
    /\ \E r \in ProbeResults :
        /\ bootOutcomes' = Append(bootOutcomes, r)
        /\ bootErr' = r
        /\ bootWaits' = BootWaitsAfter(r, bootWaits, bootI)
        /\ IF r # Nil
           THEN /\ bootI' = BootNextWait(bootI)
                /\ UNCHANGED <<bootPc, bootRet>>
           ELSE /\ bootRet' = Nil
                /\ bootPc' = "done"
                /\ UNCHANGED bootI
    /\ UNCHANGED <<rwVars, flVars, ssmVars, zkVars, zwVars, sgVars>>

\* The loop condition i < maxTime fails: return err.
BootGiveUp ==
    /\ bootPc = "loop"
    /\ ~(bootI < MaxTime)
    /\ bootRet' = bootErr
    /\ bootPc' = "done"
    /\ UNCHANGED <<bootI, bootErr, bootOutcomes, bootWaits>>
    /\ UNCHANGED <<rwVars, flVars, ssmVars, zkVars, zwVars, sgVars>>

(***************************************************************************)
(* rancher: Client.WatchPrefix                                             *)
(***************************************************************************)

\* Largest resume index a caller passes in.
MaxWaitIndex == 7

RancherPrefixes == {<<"/">>, <<"/", "a">>, <<"/", "b">>, <<"/", "a", "/", "b">>}
RancherKeySets  == {<<>>, << <<"/", "a">> >>, << <<"/", "b">> >>,
                    << <<"/", "a">>, <<"/", "b">> >>}

\* func (c *Client) WatchPrefix(prefix, keys, waitIndex) (uint64, error)
RancherWatchPrefix(prefix, keys, waitIndex) == [index |-> 0, err |-> Nil]

RwIdle ==
    /\ rwPc = "idle" /\ rwPrefix = <<>> /\ rwKeys = <<>>
    /\ rwWaitIndex = 0 /\ rwRet = [index |-> 0, err |-> Nil]

RwInit ==
    /\ rwPc = "call"
    /\ rwPrefix \in RancherPrefixes
    /\ rwKeys \in RancherKeySets
    /\ rwWaitIndex \in 0..MaxWaitIndex
    /\ rwRet = [index |-> 0, err |-> Nil]

RancherWatch ==
    /\ rwPc = "call"
    /\ rwRet' = RancherWatchPrefix(rwPrefix, rwKeys, rwWaitIndex)
    /\ rwPc' = "done"
    /\ UNCHANGED <<rwPrefix, rwKeys, rwWaitIndex>>
    /\ UNCHANGED <<bootVars, flVars, ssmVars, zkVars, zwVars, sgVars>>


(***************************************************************************)
(* rancher: TreeFlattener (treeWalk)                                       *)
(*                                                                         *)
(* A decoded JSON value is a tagged tuple: <<"obj", entries>> with entries *)
(* a sequence of <<key, value>> pairs with distinct keys, <<"arr", items>>,*)
(* <<"bool", b>>, <<"str", s>>, <<"num", n>> (integral float64 values),    *)
(* <<"null">>, and <<"other">> for a value of any other dynamic type.      *)
(* The order of an object's entries is the order in which Go's range over  *)
(* the map visits them, which is unspecified: Orderings gives every order. *)
(***************************************************************************)

\* Largest number that occurs as a scalar.
MaxNum == 2

\* Longest array of scalars.
MaxArrayLen == 2

Digit(d) == CASE d = 0 -> "0" [] d = 1 -> "1" [] d = 2 -> "2" [] d = 3 -> "3"
              [] d = 4 -> "4" [] d = 5 -> "5" [] d = 6 -> "6" [] d = 7 -> "7"
              [] d = 8 -> "8" [] d = 9 -> "9"

\* strconv.Itoa
RECURSIVE Itoa(_)
Itoa(n) == IF n < 0 THEN "-" \o Itoa(-n)
           ELSE IF n < 10 THEN Digit(n)
           ELSE Itoa(n \div 10) \o Digit(n % 10)

\* strconv.FormatFloat(v, 'f', -1, 64) of an integral value.
FormatFloat(n) == Itoa(n)

\* strconv.FormatBool
FormatBool(b) == IF b THEN "true" ELSE "false"

\* vars[key] = value
MapPut(m, key, value) ==
    [k \in DOMAIN m \cup {key} |-> IF k = key THEN value ELSE m[k]]

\* strings.Join([]string{root, seg}, "/")
JoinPath(root, seg) == root \o "/" \o seg

HasEntry(entries, key) == \E i \in 1..Len(entries) : entries[i][1] = key
EntryValue(entries, key) ==
    entries[CHOOSE i \in 1..Len(entries) : entries[i][1] = key][2]

\* Faulty variant of ArraySegment: every element goes under its index.
ArraySegmentIndexOnly(i, item) == [panic |-> FALSE, seg |-> Itoa(i)]

\* The path segment of the array element item at zero-based index i; the
\* type assertion name.(string) panics when name is not a string.
ArraySegment(i, item) ==
    IF item[1] = "obj" /\ HasEntry(item[2], "name")
    THEN LET name == EntryValue(item[2], "name")
         IN  IF name[1] = "str" THEN [panic |-> FALSE, seg |-> name[2]]
             ELSE [panic |-> TRUE, seg |-> ""]
    ELSE [panic |-> FALSE, seg |-> Itoa(i)]

\* treeWalk(root, val, vars): st is [vars, panic], the map so far and
\* whether the walk has panicked.  Its own return value is always nil.
RECURSIVE treeWalk(_, _, _)
RECURSIVE walkEntries(_, _, _, _)
RECURSIVE walkItems(_, _, _, _)
treeWalk(root, val, st) ==
    IF st.panic THEN st
    ELSE CASE val[1] = "obj"  -> walkEntries(root, val[2], 1, st)
           [] val[1] = "arr"  -> walkItems(root, val[2], 1, st)
           [] val[1] = "bool" -> [st EXCEPT !.vars = MapPut(@, root, FormatBool(val[2]))]
           [] val[1] = "str"  -> [st EXCEPT !.vars = MapPut(@, root, val[2])]
           [] val[1] = "num"  -> [st EXCEPT !.vars = MapPut(@, root, FormatFloat(val[2]))]
           [] val[1] = "null" -> [st EXCEPT !.vars = MapPut(@, root, "null")]
           [] OTHER           -> st

\* for k := range val.(map[string]interface{}) { treeWalk(...) }
walkEntries(root, entries, n, st) ==
    IF n > Len(entries) \/ st.panic THEN st
    ELSE walkEntries(root, entries, n + 1,
                     treeWalk(JoinPath(root, entries[n][1]), entries[n][2], st))

\* for i, item := range val.([]interface{}) { ... treeWalk(...) }
walkItems(root, items, n, st) ==
    IF n > Len(items) \/ st.panic THEN st
    ELSE LET seg == ArraySegment(n - 1, items[n])
         IN  IF seg.panic THEN [st EXCEPT !.panic = TRUE]
             ELSE walkItems(root, items, n + 1,
                            treeWalk(JoinPath(root, seg.seg), items[n], st))

EmptyWalk == [vars |-> <<>>, panic |-> FALSE]

Perms(n) == {p \in [1..n -> 1..n] : \A i, j \in 1..n : i # j => p[i] # p[j]}

\* Every value that differs from val only in the order of object entries.
RECURSIVE Orderings(_)
RECURSIVE EntryChoices(_)
RECURSIVE ItemChoices(_)
Orderings(val) ==
    CASE val[1] = "obj" ->
           {<<"obj", [i \in 1..Len(es) |-> es[p[i]]]>> :
                es \in EntryChoices(val[2]), p \in Perms(Len(val[2]))}
      [] val[1] = "arr" -> {<<"arr", is>> : is \in ItemChoices(val[2])}
      [] OTHER -> {val}
EntryChoices(entries) ==
    IF entries = <<>> THEN {<<>>}
    ELSE {<< <<Head(entries)[1], o>> >> \o rest :
              o \in Orderings(Head(entries)[2]), rest \in EntryChoices(Tail(entries))}
ItemChoices(items) ==
    IF items = <<>> THEN {<<>>}
    ELSE {<<o>> \o rest : o \in Orderings(Head(items)), rest \in ItemChoices(Tail(items))}

Scalars == {<<"str", "x">>, <<"bool", TRUE>>, <<"null">>}
               \cup {<<"num", n>> : n \in 0..MaxNum}
ElemNames == {"eu", "us"}

Obj1(k, v) == <<"obj", << <<k, v>> >> >>
Obj2(k1, v1, k2, v2) == <<"obj", << <<k1, v1>>, <<k2, v2>> >> >>

RECURSIVE SeqsUpTo(_, _)
SeqsUpTo(S, n) ==
    IF n = 0 THEN {<<>>}
    ELSE SeqsUpTo(S, n - 1) \cup
         {Append(s, x) : s \in {t \in SeqsUpTo(S, n - 1) : Len(t) = n - 1}, x \in S}

\* The trees fed to treeWalk.
FlatTrees ==
    {Obj2("a", s1, "b", s2) : s1, s2 \in Scalars}
    \cup {Obj2("a/b", s1, "a", Obj1("b", s2)) : s1, s2 \in Scalars}
    \cup {Obj1("a", Obj2("b", s1, "c", s2)) : s1, s2 \in Scalars}
    \cup UNION {{<<"arr", <<Obj2("name", <<"str", n1>>, "val", s1),
                           Obj2("name", <<"str", n2>>, "val", s2)>> >>
                   : s1, s2 \in Scalars} : n1, n2 \in ElemNames}
    \cup {<<"arr", <<s1, Obj1("val", s2), <<"arr", <<s1>> >> >> >> : s1, s2 \in Scalars}
    \cup {<<"arr", is>> : is \in SeqsUpTo(Scalars, MaxArrayLen)}

FlatRoots == {"/regions"}

\* A value of a dynamic type the type switch has no case for.
Unrecognized == <<"other">>
AnyValues == Scalars \cup {Unrecognized}

\* Trees with an unrecognized value as an object field, as an array element,
\* nested, and as the "name" field of an array element, next to recognized
\* leaves; "name" fields that are strings, numbers, booleans and null.
FlatTreesAny ==
    {Obj2("a", v1, "b", v2) : v1, v2 \in AnyValues}
    \cup {<<"arr", <<v1, v2>> >> : v1, v2 \in AnyValues}
    \cup {Obj1("a", <<"arr", <<v1, Obj1("b", v2)>> >>) : v1, v2 \in AnyValues}
    \cup {<<"arr", <<s, Obj2("name", v, "val", s)>> >> : v \in AnyValues, s \in Scalars}

FlInit ==
    /\ flPc = "first"
    /\ flTree \in FlatTrees
    /\ flFirst = EmptyWalk
    /\ flSecond = EmptyWalk

FlInitAny ==
    /\ flPc = "first"
    /\ flTree \in FlatTreesAny
    /\ flFirst = EmptyWalk
    /\ flSecond = EmptyWalk

\* One treeWalk of the tree, the maps ranged over in some order.
FlattenOnce ==
    /\ flPc = "first"
    /\ \E root \in FlatRoots, t \in Orderings(flTree) :
           flFirst' = treeWalk(root, t, EmptyWalk)
    /\ flPc' = "second"
    /\ UNCHANGED <<flTree, flSecond>>
    /\ UNCHANGED <<bootVars, rwVars, ssmVars, zkVars, zwVars, sgVars>>

\* A second treeWalk of the same tree, the maps ranged over in some order.
FlattenAgain ==
    /\ flPc = "second"
    /\ \E root \in FlatRoots, t \in Orderings(flTree) :
           flSecond' = treeWalk(root, t, EmptyWalk)
    /\ flPc' = "done"
    /\ UNCHANGED <<flTree, flFirst>>
    /\ UNCHANGED <<bootVars, rwVars, ssmVars, zkVars, zwVars, sgVars>>

FlIdle ==
    /\ flPc = "idle" /\ flTree = <<"null">>
    /\ flFirst = EmptyWalk /\ flSecond = EmptyWalk

(***************************************************************************)
(* ssm: StreamCursorAdapter (Client.WatchPrefix over a kinesis shard)      *)
(*                                                                         *)
(* The shard is a sequence of records.  A shard iterator is the tuple      *)
(* <<p>> of the index p of the next record to read; the empty string is    *)
(* <<>>.  A record is <<"bad">> (data json.Unmarshal rejects),             *)
(* <<"event", name>> (an event whose detail.name is name) or <<"partial">> *)
(* (valid JSON without detail.name, which leaves event.Detail.Name as the  *)
(* previous record of the batch set it).                                   *)
(***************************************************************************)

\* Most records the shard ever holds.
MaxStream == 3

\* Most records one GetRecords returns.
MaxBatch == 2

DecodeError == <<"decode", 0>>

\* strings.HasPrefix
HasPrefix(str, prefix) ==
    /\ Len(prefix) <= Len(str)
    /\ SubSeq(str, 1, Len(prefix)) = prefix

SsmRecords == {<<"bad">>, <<"partial">>,
               <<"event", <<"/", "a", "b">> >>, <<"event", <<"/", "b">> >>}
SsmKeySets == {<<>>, << <<"/", "a">> >>}

EmptyCursor == <<>>
Iterator(p) == <<p>>
Position(it) == it[1]

\* Faulty variant of MatchesAnyKey: the name has to match every key.
MatchesEveryKey(name, keys) == \A i \in 1..Len(keys) : HasPrefix(name, keys[i])

\* for _, key := range keys { if strings.HasPrefix(event.Detail.Name, key) ... }
MatchesAnyKey(name, keys) == \E i \in 1..Len(keys) : HasPrefix(name, keys[i])

\* The loop over getRecordsOutput.Records from record n on, name being
\* event.Detail.Name at that point: how it ends ("decode", "match" or
\* "none") and how many records of the batch were decoded or tried.
RECURSIVE ScanBatch(_, _, _, _)
ScanBatch(records, n, name, keys) ==
    IF n > Len(records) THEN [outcome |-> "none", examined |-> Len(records)]
    ELSE IF records[n][1] = "bad" THEN [outcome |-> "decode", examined |-> n]
    ELSE LET name2 == IF records[n][1] = "event" THEN records[n][2] ELSE name
         IN  IF MatchesAnyKey(name2, keys)
             THEN [outcome |-> "match", examined |-> n]
             ELSE ScanBatch(records, n + 1, name2, keys)

\* Faulty variant of LoopCursor: the iterator the batch was fetched at.
LoopCursorStale(fetchedAt, next) == fetchedAt

\* The cursor returned from inside the loop, given the iterator the batch
\* was fetched at and the batch's NextShardIterator: the code has already
\* overwritten shardIterator with the latter.
LoopCursor(fetchedAt, next) == next

NoRet == [cursor |-> EmptyCursor, err |-> Nil]

SsmIdle ==
    /\ ssmStream = <<>> /\ ssmKeys = <<>> /\ ssmCall = 0 /\ ssmPc = "idle"
    /\ ssmStop = FALSE
    /\ ssmShardIterator = EmptyCursor
    /\ ssmWaitIndex = <<>> /\ ssmRet = <<>> /\ ssmStart = <<>>
    /\ ssmLatest = <<>> /\ ssmFetched = <<>> /\ ssmExamined = <<>>

\* The first call: any cursor the adapter could have handed out before.
SsmInit ==
    /\ ssmStream \in SeqsUpTo(SsmRecords, 1)
    /\ ssmKeys \in SsmKeySets
    /\ ssmStop = FALSE
    /\ ssmCall = 1
    /\ ssmPc = "describe"
    /\ ssmShardIterator = EmptyCursor
    /\ \E c \in {EmptyCursor} \cup {Iterator(p) : p \in 1..(Len(ssmStream) + 1)} :
           ssmWaitIndex = <<c, EmptyCursor>>
    /\ ssmRet = <<NoRet, NoRet>>
    /\ ssmStart = <<EmptyCursor, EmptyCursor>>
    /\ ssmLatest = <<FALSE, FALSE>>
    /\ ssmFetched = <<{}, {}>>
    /\ ssmExamined = <<{}, {}>>

ssmOther == <<bootVars, rwVars, flVars, zkVars, zwVars, sgVars>>

SsmReturn(cursor, err) ==
    /\ ssmRet' = [ssmRet EXCEPT ![ssmCall] = [cursor |-> cursor, err |-> err]]
    /\ ssmPc' = "done"

\* A producer puts one more record on the shard.
PutRecord ==
    /\ ssmCall > 0
    /\ Len(ssmStream) < MaxStream
    /\ \E r \in SsmRecords : ssmStream' = Append(ssmStream, r)
    /\ UNCHANGED <<ssmKeys, ssmStop, ssmCall, ssmPc, ssmShardIterator, ssmWaitIndex, ssmRet,
                   ssmStart, ssmLatest, ssmFetched, ssmExamined>>
    /\ UNCHANGED ssmOther

\* DescribeStream fails: return waitIndex, err.
SsmDescribeFails ==
    /\ ssmPc = "describe"
    /\ SsmReturn(ssmWaitIndex[ssmCall], TransportError(1))
    /\ UNCHANGED <<ssmStream, ssmKeys, ssmStop, ssmCall, ssmShardIterator, ssmWaitIndex,
                   ssmStart, ssmLatest, ssmFetched, ssmExamined>>
    /\ UNCHANGED ssmOther

\* DescribeStream succeeds and waitIndex == "": the GetShardIterator call.
SsmDescribe ==
    /\ ssmPc = "describe"
    /\ ssmPc' = IF ssmWaitIndex[ssmCall] = EmptyCursor THEN "iterator" ELSE "resume"
    /\ UNCHANGED <<ssmStream, ssmKeys, ssmStop, ssmCall, ssmShardIterator, ssmWaitIndex, ssmRet,
                   ssmStart, ssmLatest, ssmFetched, ssmExamined>>
    /\ UNCHANGED ssmOther

\* GetShardIterator(LATEST): the iterator just after the newest record, or
\* an error, returned with waitIndex.
SsmGetShardIterator ==
    /\ ssmPc = "iterator"
    /\ ssmLatest' = [ssmLatest EXCEPT ![ssmCall] = TRUE]
    /\ \/ /\ SsmReturn(ssmWaitIndex[ssmCall], TransportError(2))
          /\ UNCHANGED <<ssmShardIterator, ssmStart>>
       \/ /\ ssmShardIterator' = Iterator(Len(ssmStream) + 1)
          /\ ssmStart' = [ssmStart EXCEPT ![ssmCall] = ssmShardIterator']
          /\ ssmPc' = "loop"
          /\ UNCHANGED ssmRet
    /\ UNCHANGED <<ssmStream, ssmKeys, ssmStop, ssmCall, ssmWaitIndex, ssmFetched, ssmExamined>>
    /\ UNCHANGED ssmOther

\* waitIndex != "": shardIterator = &waitIndex; time.Sleep(5 * time.Second)
SsmResume ==
    /\ ssmPc = "resume"
    /\ ssmShardIterator' = ssmWaitIndex[ssmCall]
    /\ ssmStart' = [ssmStart EXCEPT ![ssmCall] = ssmShardIterator']
    /\ ssmPc' = "loop"
    /\ UNCHANGED <<ssmStream, ssmKeys, ssmStop, ssmCall, ssmWaitIndex, ssmRet, ssmLatest,
                   ssmFetched, ssmExamined>>
    /\ UNCHANGED ssmOther

\* GetRecords fails: return *shardIterator, err.
SsmGetRecordsFails ==
    /\ ssmPc = "loop"
    /\ SsmReturn(ssmShardIterator, TransportError(3))
    /\ UNCHANGED <<ssmStream, ssmKeys, ssmStop, ssmCall, ssmShardIterator, ssmWaitIndex,
                   ssmStart, ssmLatest, ssmFetched, ssmExamined>>
    /\ UNCHANGED ssmOther

\* One iteration of the loop: GetRecords delivers the next n records (n up
\* to MaxBatch, possibly 0), shardIterator becomes NextShardIterator, the
\* records are decoded and matched in order, and the call returns on a
\* decode error or a match, or sleeps and goes round again.
SsmGetRecords ==
    /\ ssmPc = "loop"
    /\ LET p == Position(ssmShardIterator)
           avail == Len(ssmStream) - p + 1
       IN \E n \in 0..(IF avail < MaxBatch THEN avail ELSE MaxBatch) :
            LET records == SubSeq(ssmStream, p, p + n - 1)
                next == Iterator(p + n)
                scan == ScanBatch(records, 1, <<>>, ssmKeys)
            IN  /\ ssmShardIterator' = next
                /\ ssmFetched' = [ssmFetched EXCEPT ![ssmCall] = @ \cup (p..(p + n - 1))]
                /\ ssmExamined' = [ssmExamined EXCEPT
                                     ![ssmCall] = @ \cup (p..(p + scan.examined - 1))]
                /\ CASE scan.outcome = "decode" ->
                          SsmReturn(LoopCursor(ssmShardIterator, next), DecodeError)
                     [] scan.outcome = "match" ->
                          SsmReturn(LoopCursor(ssmShardIterator, next), Nil)
                     [] OTHER -> UNCHANGED <<ssmPc, ssmRet>>
    /\ UNCHANGED <<ssmStream, ssmKeys, ssmStop, ssmCall, ssmWaitIndex, ssmStart, ssmLatest>>
    /\ UNCHANGED ssmOther

\* The caller signals stop.  No statement of WatchPrefix reads stopChan.
SsmStop ==
    /\ ssmCall > 0
    /\ ~ssmStop
    /\ ssmStop' = TRUE
    /\ UNCHANGED <<ssmStream, ssmKeys, ssmCall, ssmPc, ssmShardIterator, ssmWaitIndex,
                   ssmRet, ssmStart, ssmLatest, ssmFetched, ssmExamined>>
    /\ UNCHANGED ssmOther

\* The caller calls WatchPrefix again with the cursor the first call gave.
SsmCallAgain ==
    /\ ssmCall = 1
    /\ ssmPc = "done"
    /\ ssmCall' = 2
    /\ ssmWaitIndex' = [ssmWaitIndex EXCEPT ![2] = ssmRet[1].cursor]
    /\ ssmPc' = "describe"
    /\ ssmShardIterator' = EmptyCursor
    /\ UNCHANGED <<ssmStream, ssmKeys, ssmStop, ssmRet, ssmStart, ssmLatest, ssmFetched,
                   ssmExamined>>
    /\ UNCHANGED ssmOther

(***************************************************************************)
(* zookeeper: HierarchicalWatchAdapter                                     *)
(*                                                                         *)
(* The tree is a function from the paths of the existing nodes to their    *)
(* data; the root "/" always exists.  A watch channel of go-zookeeper has  *)
(* room for one event and is closed once that event is put on it: it is    *)
(* "nil" (the call that should have made it failed), "armed" (watch set,   *)
(* nothing delivered), holds the type of the delivered event, or is        *)
(* "closed" (the event was taken; every later receive yields the zero      *)
(* Event, whose Type matches neither case of watch).  The server fires a   *)
(* data watch on a node when its data is set or it is deleted, and a child *)
(* watch when a child is created or deleted or the node itself is deleted. *)
(*                                                                         *)
(* Every backend call of GetValues is a step of its own, so the tree can   *)
(* change between two of them.  The two loops that start the goroutines    *)
(* are one step: a goroutine that is not started yet and one that has not  *)
(* run yet behave alike, every goroutine starting at its GetW, and         *)
(* goroutines are told apart by their argument only, so the order in which *)
(* the loops range over the map entries does not show.  A receive from a   *)
(* closed watch channel changes nothing and is a stuttering step.          *)
(***************************************************************************)

\* Most changes the environment makes to the tree.
MaxChanges == 2

\* Most GetW/ChildrenW calls that fail for a reason of the transport.
MaxFailures == 1

Root == <<"/">>
PathA == <<"/", "a">>
PathAB == <<"/", "a", "/", "b">>
ZkNodes == {PathA, PathAB}
ZkData == {"x", "y"}

ErrNoNode == <<"zk: node does not exist", 0>>
ErrInvalidPath == <<"zk: invalid path", 0>>

LastSlash(path) ==
    IF \E i \in 1..Len(path) : path[i] = "/"
    THEN CHOOSE i \in 1..Len(path) :
             path[i] = "/" /\ \A j \in (i + 1)..Len(path) : path[j] # "/"
    ELSE 0

\* filepath.Dir of a clean path.
Dir(path) ==
    LET i == LastSlash(path)
    IN  IF i = 0 THEN <<".">>
        ELSE IF i = 1 THEN Root
        ELSE SubSeq(path, 1, i - 1)

\* The last element of a path: the name Children lists a node under.
Base(path) == SubSeq(path, LastSlash(path) + 1, Len(path))

\* strings.Replace(v, "/*", "", -1)
RECURSIVE StripWildcard(_)
StripWildcard(v) ==
    IF Len(v) < 2 THEN v
    ELSE IF v[1] = "/" /\ v[2] = "*" THEN StripWildcard(SubSeq(v, 3, Len(v)))
    ELSE <<v[1]>> \o StripWildcard(Tail(v))

NodeExists(store, path) == path = Root \/ path \in DOMAIN store

\* The names c.client.Children(path) lists.
ChildNames(store, path) ==
    {Base(n) : n \in {m \in DOMAIN store : Dir(m) = path}}

\* stat.NumChildren as Exists reports it: 0 for a node that does not exist.
NumChildren(store, path) == Cardinality(ChildNames(store, path))

ErrConnectionClosed == <<"zk: connection closed", 0>>

\* The data c.client.Get returns for "/", which the tree does not hold.
RootData == ""

NodeData(store, path) == IF path = Root THEN RootData ELSE store[path]

RECURSIVE SetToSeq(_)
SetToSeq(S) ==
    IF S = {} THEN <<>>
    ELSE LET x == CHOOSE y \in S : TRUE IN <<x>> \o SetToSeq(S \ {x})

\* The lists c.client.Children can return for a node with the child names
\* S: the server fixes no order.
Listings(S) ==
    {[i \in 1..Cardinality(S) |-> SetToSeq(S)[p[i]]] : p \in Perms(Cardinality(S))}

\* The error of a backend call on path that does not depend on the tree:
\* failing holds the paths on which the transport fails.
CallErr(path, failing) ==
    IF path = <<>> THEN ErrInvalidPath
    ELSE IF path \in failing THEN ErrConnectionClosed
    ELSE Nil

\* The error of c.client.Children(path) and of c.client.Get(path).
NodeErr(path, store, failing) ==
    IF CallErr(path, failing) # Nil THEN CallErr(path, failing)
    ELSE IF ~NodeExists(store, path) THEN ErrNoNode
    ELSE Nil

(***************************************************************************)
(* A GetValues call in progress is a record w: pc names the backend call   *)
(* it makes next ("exists", line 63; "children", 26; "get", 32;            *)
(* "childexists", 41; "childget", 46) or is "done"; ki is the index of the *)
(* key of the loop of line 61; stack holds the frames of nodeWalk, the     *)
(* innermost last, each with its prefix, the listing l and the index i of  *)
(* the loop of line 39; vars is the map so far and err the error returned. *)
(* Each operator below is one backend call with what the code does up to   *)
(* the next one.                                                           *)
(***************************************************************************)
Frame(prefix) == [prefix |-> prefix, l |-> <<>>, i |-> 0]

GetValuesStart(keys) ==
    [pc |-> IF keys = <<>> THEN "done" ELSE "exists", ki |-> 1, stack |-> <<>>,
     vars |-> <<>>, err |-> Nil]

\* return vars, err (lines 65, 72, 75)
GetValuesReturn(w, err) == [w EXCEPT !.pc = "done", !.stack = <<>>, !.err = err]

\* nodeWalk returned nil at line 70: the loop of line 61 goes on.
NextKey(w, keys) ==
    IF w.ki >= Len(keys) THEN GetValuesReturn(w, Nil)
    ELSE [w EXCEPT !.pc = "exists", !.ki = @ + 1, !.stack = <<>>]

\* LoopOn: the loop of line 39 after the body of its i-th round.
\* nodeWalkReturn: the innermost nodeWalk returns err, to GetValues (line
\* 70) or to the loop of its caller, which drops err (line 52).
RECURSIVE LoopOn(_, _)
RECURSIVE nodeWalkReturn(_, _, _)
LoopOn(w, keys) ==
    LET d == Len(w.stack)
    IN  IF w.stack[d].i < Len(w.stack[d].l)
        THEN [w EXCEPT !.pc = "childexists", !.stack[d].i = @ + 1]
        ELSE nodeWalkReturn(w, keys, Nil)
nodeWalkReturn(w, keys, err) ==
    LET d == Len(w.stack)
    IN  IF d > 1 THEN LoopOn([w EXCEPT !.stack = SubSeq(w.stack, 1, d - 1)], keys)
        ELSE IF err # Nil THEN GetValuesReturn(w, err)
        ELSE NextKey(w, keys)

\* Lines 62-70: strip "/*", c.client.Exists(v), "/" becomes "".
GetValuesExists(w, keys, store, failing) ==
    LET v == StripWildcard(keys[w.ki])
    IN  IF CallErr(v, failing) # Nil THEN {GetValuesReturn(w, CallErr(v, failing))}
        ELSE {[w EXCEPT !.pc = "children",
                        !.stack = <<Frame(IF v = Root THEN <<>> ELSE v)>>]}

\* Lines 26-31 and 39: c.client.Children(prefix) and the branch on
\* stat.NumChildren.
nodeWalkChildren(w, keys, store, failing) ==
    LET d == Len(w.stack)
        prefix == w.stack[d].prefix
    IN  IF NodeErr(prefix, store, failing) # Nil
        THEN {nodeWalkReturn(w, keys, NodeErr(prefix, store, failing))}
        ELSE IF NumChildren(store, prefix) = 0 THEN {[w EXCEPT !.pc = "get"]}
        ELSE {[w EXCEPT !.pc = "childexists", !.stack[d].l = l, !.stack[d].i = 1] :
                  l \in Listings(ChildNames(store, prefix))}

\* Lines 32-36: c.client.Get(prefix) of a node listed without children.
nodeWalkGet(w, keys, store, failing) ==
    LET prefix == w.stack[Len(w.stack)].prefix
    IN  IF NodeErr(prefix, store, failing) # Nil
        THEN {nodeWalkReturn(w, keys, NodeErr(prefix, store, failing))}
        ELSE {nodeWalkReturn([w EXCEPT !.vars = MapPut(@, prefix,
                                                       NodeData(store, prefix))],
                             keys, Nil)}

\* s := prefix + "/" + key
ChildPath(w) ==
    LET f == w.stack[Len(w.stack)]
    IN  f.prefix \o <<"/">> \o f.l[f.i]

\* Faulty variant of ChildIsLeaf: every child is read like a leaf.
ChildIsLeafAlways(store, s) == TRUE

\* stat.NumChildren == 0 (line 45); the Stat of a node that does not exist
\* is the zero Stat.
ChildIsLeaf(store, s) == NumChildren(store, s) = 0

\* Lines 40-45 and 52: c.client.Exists(s) and the branch on
\* stat.NumChildren.
nodeWalkExists(w, keys, store, failing) ==
    LET s == ChildPath(w)
    IN  IF CallErr(s, failing) # Nil THEN {nodeWalkReturn(w, keys, CallErr(s, failing))}
        ELSE IF ChildIsLeaf(store, s) THEN {[w EXCEPT !.pc = "childget"]}
        ELSE {[w EXCEPT !.pc = "children", !.stack = Append(@, Frame(s))]}

\* Lines 46-50: c.client.Get(s) of a child.
nodeWalkChildGet(w, keys, store, failing) ==
    LET s == ChildPath(w)
    IN  IF NodeErr(s, store, failing) # Nil
        THEN {nodeWalkReturn(w, keys, NodeErr(s, store, failing))}
        ELSE {LoopOn([w EXCEPT !.vars = MapPut(@, s, NodeData(store, s))], keys)}

\* The states of the call w after its next backend call on the tree store.
GetValuesStep(w, keys, store, failing) ==
    CASE w.pc = "exists"      -> GetValuesExists(w, keys, store, failing)
      [] w.pc = "children"    -> nodeWalkChildren(w, keys, store, failing)
      [] w.pc = "get"         -> nodeWalkGet(w, keys, store, failing)
      [] w.pc = "childexists" -> nodeWalkExists(w, keys, store, failing)
      [] w.pc = "childget"    -> nodeWalkChildGet(w, keys, store, failing)
      [] OTHER                -> {}

\* The states in which the call w can end on a tree that does not change.
RECURSIVE GetValuesRuns(_, _, _, _)
GetValuesRuns(w, keys, store, failing) ==
    IF w.pc = "done" THEN {w}
    ELSE UNION {GetValuesRuns(x, keys, store, failing) :
                    x \in GetValuesStep(w, keys, store, failing)}

Outcomes(ws) == {[vars |-> w.vars, err |-> w.err] : w \in ws}

\* What nodeWalk(prefix, c, vars) can leave in vars and return, out being
\* vars before the call, on a tree that does not change.
nodeWalk(prefix, store, out, failing) ==
    Outcomes(GetValuesRuns([pc |-> "children", ki |-> 1, stack |-> <<Frame(prefix)>>,
                            vars |-> out, err |-> Nil],
                           <<prefix>>, store, failing))

\* What Client.GetValues(keys) can return on a tree that does not change.
GetValues(keys, store, failing) ==
    Outcomes(GetValuesRuns(GetValuesStart(keys), keys, store, failing))

\* Whether the entry k has some filter key as a prefix.
Watched(k, keys) == MatchesAnyKey(k, keys)

\* Faulty variant of InWatchMap: watchMap is never consulted.
InWatchMapNever(watchMap, dir) == FALSE

\* _, ok := watchMap[dir]
InWatchMap(watchMap, dir) == dir \in watchMap

\* for dir := filepath.Dir(k); dir != "/"; dir = filepath.Dir(dir): the
\* values dir takes, in order.  Entries are absolute paths, so dir never
\* becomes ".".
RECURSIVE DirLoop(_)
DirLoop(dir) ==
    IF dir = Root \/ dir = <<".">> THEN <<>> ELSE <<dir>> \o DirLoop(Dir(dir))

\* The directories the first loop visits from the n-th of the entries ks
\* on, in order: those of every entry that matches a filter key.
RECURSIVE FirstLoop(_, _, _)
FirstLoop(ks, n, keys) ==
    IF n > Len(ks) THEN <<>>
    ELSE (IF Watched(ks[n], keys) THEN DirLoop(Dir(ks[n])) ELSE <<>>)
             \o FirstLoop(ks, n + 1, keys)

\* Of the directories visited, from the i-th on, those that get a
\* goroutine: watchMap holds the directories visited before.
RECURSIVE NotYetWatched(_, _)
NotYetWatched(visited, i) ==
    IF i > Len(visited) THEN <<>>
    ELSE (IF InWatchMap({visited[j] : j \in 1..(i - 1)}, visited[i]) THEN <<>>
          ELSE <<visited[i]>>) \o NotYetWatched(visited, i + 1)

\* The argument of every "go c.watch(...)" of one WatchPrefix call: the
\* first loop starts one per directory not yet in watchMap, the second one
\* per matching entry.
SpawnedDirs(entries, keys) ==
    NotYetWatched(FirstLoop(SetToSeq(DOMAIN entries), 1, keys), 1)
SpawnedKeys(entries, keys) ==
    SetToSeq({e \in DOMAIN entries : Watched(e, keys)})
Spawned(entries, keys) == SpawnedDirs(entries, keys) \o SpawnedKeys(entries, keys)

\* The trees a call can start on: every set of nodes closed under parents.
ZkStores ==
    {st \in UNION {[S -> {"x"}] : S \in SUBSET ZkNodes} :
        \A n \in DOMAIN st : NodeExists(st, Dir(n))}

ZkIdle ==
    /\ zkStore = <<>> /\ zkPrefix = <<>> /\ zkKeys = <<>> /\ zkWaitIndex = <<>>
    /\ zkStop = FALSE /\ zkPc = "idle" /\ zkWalk = GetValuesStart(<<>>)
    /\ zkEntries = <<>> /\ zkRet = NoRet
    /\ zkExit = "none" /\ zkCancel = FALSE
    /\ gTarget = <<>> /\ gPc = <<>> /\ gKeyCh = <<>> /\ gChildCh = <<>>
    /\ gResp = <<>> /\ gSends = <<>>
    /\ zkChanges = 0 /\ zkFailures = 0 /\ zkRelChanged = FALSE /\ zkLeafChanged = FALSE

ZkInit ==
    /\ zkStore \in ZkStores
    /\ zkPrefix \in {PathA}
    /\ zkKeys \in {<<PathA>>, <<PathAB>>}
    /\ zkWaitIndex \in {<<>>, <<"7">>}
    /\ zkStop = FALSE /\ zkPc = "call" /\ zkWalk = GetValuesStart(<<zkPrefix>>)
    /\ zkEntries = <<>> /\ zkRet = NoRet
    /\ zkExit = "none" /\ zkCancel = FALSE
    /\ gTarget = <<>> /\ gPc = <<>> /\ gKeyCh = <<>> /\ gChildCh = <<>>
    /\ gResp = <<>> /\ gSends = <<>>
    /\ zkChanges = 0 /\ zkFailures = 0 /\ zkRelChanged = FALSE /\ zkLeafChanged = FALSE

zkOther == <<bootVars, rwVars, flVars, ssmVars, zwVars, sgVars>>
zkArgs == <<zkPrefix, zkKeys, zkWaitIndex>>
zkHist == <<zkRelChanged, zkLeafChanged>>
Goroutines == 1..Len(gTarget)

\* Faulty variant of WatchResponse: the error is left out.
WatchResponseNoErr(err) == [waitIndex |-> <<>>, err |-> Nil]

\* watchResponse{"", err}
WatchResponse(err) == [waitIndex |-> <<>>, err |-> err]

\* The cursor returned when a watchResponse r is received: r.waitIndex.
RespCursor(r, waitIndex) == r.waitIndex

\* A return of WatchPrefix; the deferred close(cancelRoutine) runs once the
\* channel has been made.
ZkReturn(cursor, err, exit) ==
    /\ zkRet' = [cursor |-> cursor, err |-> err]
    /\ zkExit' = exit
    /\ zkPc' = "done"

\* One backend call of c.GetValues([]string{prefix}) (line 113), on the
\* tree as it is when the call is made.
ZkGetValues ==
    /\ zkPc = "call"
    /\ \E w \in GetValuesStep(zkWalk, <<zkPrefix>>, zkStore, {}) : zkWalk' = w
    /\ UNCHANGED <<zkStore, zkArgs, zkStop, zkPc, zkEntries, zkRet, zkExit, zkCancel,
                   gTarget, gPc, gKeyCh, gChildCh, gResp, gSends, zkChanges, zkFailures,
                   zkHist>>
    /\ UNCHANGED zkOther

\* GetValues has returned: return its error (line 115), else the two loops
\* that start the goroutines (lines 118-148).  spawned is bound by \E over
\* a one-element set, so it is worked out once per step.
ZkSnapshot ==
    /\ zkPc = "call"
    /\ zkWalk.pc = "done"
    /\ IF zkWalk.err # Nil
       THEN /\ ZkReturn(zkWaitIndex, zkWalk.err, "snapshot")
            /\ UNCHANGED <<zkEntries, gTarget, gPc, gKeyCh, gChildCh, gResp, gSends>>
       ELSE \E spawned \in {Spawned(zkWalk.vars, zkKeys)} :
                /\ zkEntries' = zkWalk.vars
                /\ gTarget' = spawned
                /\ gPc' = [g \in 1..Len(spawned) |-> "getw"]
                /\ gKeyCh' = [g \in 1..Len(spawned) |-> "nil"]
                /\ gChildCh' = [g \in 1..Len(spawned) |-> "nil"]
                /\ gResp' = [g \in 1..Len(spawned) |-> WatchResponse(Nil)]
                /\ gSends' = [g \in 1..Len(spawned) |-> 0]
                /\ zkPc' = "select"
                /\ UNCHANGED <<zkRet, zkExit>>
    /\ UNCHANGED <<zkStore, zkArgs, zkStop, zkWalk, zkCancel, zkChanges, zkFailures,
                   zkHist>>
    /\ UNCHANGED zkOther

\* case <-stopChan: return waitIndex, nil
ZkStopped ==
    /\ zkPc = "select"
    /\ zkStop
    /\ ZkReturn(zkWaitIndex, Nil, "stop")
    /\ zkCancel' = TRUE
    /\ UNCHANGED <<zkStore, zkArgs, zkStop, zkWalk, zkEntries, gTarget, gPc, gKeyCh,
                   gChildCh, gResp, gSends, zkChanges, zkFailures, zkHist>>
    /\ UNCHANGED zkOther

\* The pc of watch after a send on respChan made at pc.
AfterSend(pc) ==
    CASE pc = "senderr1" -> "childrenw"
      [] pc = "senderr2" -> "select"
      [] pc = "sendev"   -> "select"

\* case r := <-respChan: return r.waitIndex, r.err.  respChan has no
\* buffer, so the send of goroutine g and this receive are one step.
ZkRelayed(g) ==
    /\ zkPc = "select"
    /\ gPc[g] \in {"senderr1", "senderr2", "sendev"}
    /\ ZkReturn(RespCursor(gResp[g], zkWaitIndex), gResp[g].err, "resp")
    /\ zkCancel' = TRUE
    /\ gPc' = [gPc EXCEPT ![g] = AfterSend(gPc[g])]
    /\ UNCHANGED <<zkStore, zkArgs, zkStop, zkWalk, zkEntries, gTarget, gKeyCh, gChildCh,
                   gResp, gSends, zkChanges, zkFailures, zkHist>>
    /\ UNCHANGED zkOther

gFrame == <<zkStore, zkArgs, zkStop, zkPc, zkWalk, zkEntries, zkRet, zkExit, zkCancel,
            gTarget, zkChanges, zkHist>>

\* _, _, keyEventCh, err := c.client.GetW(key)
WatchGetW(g) ==
    /\ gPc[g] = "getw"
    /\ \/ /\ NodeExists(zkStore, gTarget[g])
          /\ gKeyCh' = [gKeyCh EXCEPT ![g] = "armed"]
          /\ gPc' = [gPc EXCEPT ![g] = "childrenw"]
          /\ UNCHANGED <<gResp, gSends, zkFailures>>
       \/ /\ ~NodeExists(zkStore, gTarget[g])
          /\ gResp' = [gResp EXCEPT ![g] = WatchResponse(ErrNoNode)]
          /\ gSends' = [gSends EXCEPT ![g] = @ + 1]
          /\ gPc' = [gPc EXCEPT ![g] = "senderr1"]
          /\ UNCHANGED <<gKeyCh, zkFailures>>
       \/ /\ zkFailures < MaxFailures
          /\ zkFailures' = zkFailures + 1
          /\ gResp' = [gResp EXCEPT ![g] = WatchResponse(TransportError(1))]
          /\ gSends' = [gSends EXCEPT ![g] = @ + 1]
          /\ gPc' = [gPc EXCEPT ![g] = "senderr1"]
          /\ UNCHANGED gKeyCh
    /\ UNCHANGED gChildCh
    /\ UNCHANGED gFrame
    /\ UNCHANGED zkOther

\* _, _, childEventCh, err := c.client.ChildrenW(key)
WatchChildrenW(g) ==
    /\ gPc[g] = "childrenw"
    /\ \/ /\ NodeExists(zkStore, gTarget[g])
          /\ gChildCh' = [gChildCh EXCEPT ![g] = "armed"]
          /\ gPc' = [gPc EXCEPT ![g] = "select"]
          /\ UNCHANGED <<gResp, gSends, zkFailures>>
       \/ /\ ~NodeExists(zkStore, gTarget[g])
          /\ gResp' = [gResp EXCEPT ![g] = WatchResponse(ErrNoNode)]
          /\ gSends' = [gSends EXCEPT ![g] = @ + 1]
          /\ gPc' = [gPc EXCEPT ![g] = "senderr2"]
          /\ UNCHANGED <<gChildCh, zkFailures>>
       \/ /\ zkFailures < MaxFailures
          /\ zkFailures' = zkFailures + 1
          /\ gResp' = [gResp EXCEPT ![g] = WatchResponse(TransportError(2))]
          /\ gSends' = [gSends EXCEPT ![g] = @ + 1]
          /\ gPc' = [gPc EXCEPT ![g] = "senderr2"]
          /\ UNCHANGED gChildCh
    /\ UNCHANGED gKeyCh
    /\ UNCHANGED gFrame
    /\ UNCHANGED zkOther

\* Faulty variant of KeyEventRelayed: no key event is relayed.
KeyEventRelayedNever(type) == FALSE

\* if e.Type == zk.EventNodeDataChanged
KeyEventRelayed(type) == type = "EventNodeDataChanged"

\* if e.Type == zk.EventNodeChildrenChanged
ChildEventRelayed(type) == type = "EventNodeChildrenChanged"

\* case e := <-keyEventCh: the event is taken off the channel; it is
\* relayed if e.Type == zk.EventNodeDataChanged (e.Err is nil).
WatchKeyEvent(g) ==
    /\ gPc[g] = "select"
    /\ gKeyCh[g] \in {"EventNodeDataChanged", "EventNodeDeleted"}
    /\ gKeyCh' = [gKeyCh EXCEPT ![g] = "closed"]
    /\ IF KeyEventRelayed(gKeyCh[g])
       THEN /\ gResp' = [gResp EXCEPT ![g] = WatchResponse(Nil)]
            /\ gSends' = [gSends EXCEPT ![g] = @ + 1]
            /\ gPc' = [gPc EXCEPT ![g] = "sendev"]
       ELSE UNCHANGED <<gResp, gSends, gPc>>
    /\ UNCHANGED <<gChildCh, zkFailures>>
    /\ UNCHANGED gFrame
    /\ UNCHANGED zkOther

\* case e := <-childEventCh: relayed if e.Type == zk.EventNodeChildrenChanged.
WatchChildEvent(g) ==
    /\ gPc[g] = "select"
    /\ gChildCh[g] \in {"EventNodeChildrenChanged", "EventNodeDeleted"}
    /\ gChildCh' = [gChildCh EXCEPT ![g] = "closed"]
    /\ IF ChildEventRelayed(gChildCh[g])
       THEN /\ gResp' = [gResp EXCEPT ![g] = WatchResponse(Nil)]
            /\ gSends' = [gSends EXCEPT ![g] = @ + 1]
            /\ gPc' = [gPc EXCEPT ![g] = "sendev"]
       ELSE UNCHANGED <<gResp, gSends, gPc>>
    /\ UNCHANGED <<gKeyCh, zkFailures>>
    /\ UNCHANGED gFrame
    /\ UNCHANGED zkOther

\* case <-cancelRoutine: return
WatchCancelled(g) ==
    /\ gPc[g] = "select"
    /\ zkCancel
    /\ gPc' = [gPc EXCEPT ![g] = "done"]
    /\ UNCHANGED <<gKeyCh, gChildCh, gResp, gSends, zkFailures>>
    /\ UNCHANGED gFrame
    /\ UNCHANGED zkOther

\* The channels after the server fires the data watches on node n with an
\* event of type ev.
FireData(ch, n, ev) ==
    [g \in DOMAIN ch |-> IF gTarget[g] = n /\ ch[g] = "armed" THEN ev ELSE ch[g]]

\* The channels after node n is created or deleted: the child watches on
\* its parent get EventNodeChildrenChanged, those on n itself ev.
FireChild(ch, n, ev) ==
    [g \in DOMAIN ch |->
        IF ch[g] # "armed" THEN ch[g]
        ELSE IF gTarget[g] = Dir(n) THEN "EventNodeChildrenChanged"
        ELSE IF gTarget[g] = n /\ ev # "none" THEN ev
        ELSE ch[g]]

envFrame == <<zkArgs, zkStop, zkPc, zkWalk, zkEntries, zkRet, zkExit, zkCancel, gTarget,
              gPc, gResp, gSends, zkFailures>>

NoteChange(n) ==
    zkRelChanged' = (zkRelChanged \/ (zkPc = "select" /\ Watched(n, zkKeys)))

\* Some client sets the data of node n to a new value.
EnvSetData(n) ==
    /\ zkPc \in {"call", "select", "done"}
    /\ zkChanges < MaxChanges
    /\ n \in DOMAIN zkStore
    /\ \E d \in ZkData \ {zkStore[n]} : zkStore' = [zkStore EXCEPT ![n] = d]
    /\ zkChanges' = zkChanges + 1
    /\ gKeyCh' = FireData(gKeyCh, n, "EventNodeDataChanged")
    /\ NoteChange(n)
    /\ zkLeafChanged' =
           (zkLeafChanged \/ (/\ zkPc = "select"
                              /\ ~zkStop
                              /\ n \in DOMAIN zkEntries
                              /\ \E g \in Goroutines :
                                     gTarget[g] = n /\ gKeyCh[g] = "armed"))
    /\ UNCHANGED gChildCh
    /\ UNCHANGED envFrame
    /\ UNCHANGED zkOther

\* Some client deletes node n, which has no children.
EnvDelete(n) ==
    /\ zkPc \in {"call", "select", "done"}
    /\ zkChanges < MaxChanges
    /\ n \in DOMAIN zkStore
    /\ NumChildren(zkStore, n) = 0
    /\ zkStore' = [m \in DOMAIN zkStore \ {n} |-> zkStore[m]]
    /\ zkChanges' = zkChanges + 1
    /\ gKeyCh' = FireData(gKeyCh, n, "EventNodeDeleted")
    /\ gChildCh' = FireChild(gChildCh, n, "EventNodeDeleted")
    /\ NoteChange(n)
    /\ UNCHANGED zkLeafChanged
    /\ UNCHANGED envFrame
    /\ UNCHANGED zkOther

\* Some client creates node n under an existing parent.
EnvCreate(n) ==
    /\ zkPc \in {"call", "select", "done"}
    /\ zkChanges < MaxChanges
    /\ n \in ZkNodes \ DOMAIN zkStore
    /\ NodeExists(zkStore, Dir(n))
    /\ zkStore' = MapPut(zkStore, n, "x")
    /\ zkChanges' = zkChanges + 1
    /\ gChildCh' = FireChild(gChildCh, n, "none")
    /\ NoteChange(n)
    /\ UNCHANGED <<gKeyCh, zkLeafChanged>>
    /\ UNCHANGED envFrame
    /\ UNCHANGED zkOther

\* The caller signals stop.
EnvStop ==
    /\ zkPc \in {"call", "select"}
    /\ ~zkStop
    /\ zkStop' = TRUE
    /\ UNCHANGED <<zkStore, zkArgs, zkPc, zkWalk, zkEntries, zkRet, zkExit, zkCancel,
                   gTarget, gPc, gKeyCh, gChildCh, gResp, gSends, zkChanges, zkFailures,
                   zkHist>>
    /\ UNCHANGED zkOther

(***************************************************************************)
(* zookeeper: Client.GetValues and the first part of Client.WatchPrefix    *)
(* (snapshot, then the two loops that start the watch goroutines) as       *)
(* functions of their arguments, on a tree that does not change during the *)
(* call.  The tree is deeper than the one of the watch model above, and    *)
(* the backend can fail on one path.                                       *)
(***************************************************************************)

\* Longest keys argument.
MaxKeys == 2

PathAD == <<"/", "a", "/", "d">>
PathADH == <<"/", "a", "/", "d", "/", "h">>
PathADK == <<"/", "a", "/", "d", "/", "k">>
PathAX == <<"/", "a", "/", "x">>
PathB == <<"/", "b">>
ZwNodes == {PathA, PathAD, PathADH, PathADK, PathAX, PathB}

\* Every tree over ZwNodes closed under parents; the data of a node is the
\* last character of its path.
ZwStores ==
    {st \in UNION {[S -> {"h", "k", "x", "d", "a", "b"}] : S \in SUBSET ZwNodes} :
        \A n \in DOMAIN st : NodeExists(st, Dir(n)) /\ st[n] = n[Len(n)]}

ZwPrefixes == {PathA, PathA \o <<"/", "*">>, PathAD, PathADH, PathB}
ZwKeyLists == SeqsUpTo(ZwPrefixes, MaxKeys)
ZwFailures == {{}} \cup {{n} : n \in ZwNodes}

NoGot == [vars |-> <<>>, err |-> Nil]
NoSnap == [err |-> Nil, proceeded |-> FALSE, entries |-> <<>>, spawned |-> <<>>]

ZwIdle ==
    /\ zwPc = "idle" /\ zwStore = <<>> /\ zwKeys = <<>> /\ zwFailing = {}
    /\ zwGot = NoGot /\ zwPrefix = <<>> /\ zwSnap = NoSnap

ZwInit ==
    /\ zwPc = "call"
    /\ zwStore \in ZwStores
    /\ zwKeys \in ZwKeyLists
    /\ zwFailing \in ZwFailures
    /\ zwGot = NoGot /\ zwPrefix = <<>> /\ zwSnap = NoSnap

zwOther == <<bootVars, rwVars, flVars, ssmVars, zkVars, sgVars>>

\* vars, err := c.GetValues(keys)
ZwGetValues ==
    /\ zwPc = "call"
    /\ zwGot' \in GetValues(zwKeys, zwStore, zwFailing)
    /\ zwPc' = "got"
    /\ UNCHANGED <<zwStore, zwKeys, zwFailing, zwPrefix, zwSnap>>
    /\ UNCHANGED zwOther

\* WatchPrefix(prefix, keys, ...) up to its select: return on a failed
\* snapshot, else start the goroutines.
ZwWatchPrefix ==
    /\ zwPc = "got"
    /\ \E prefix \in {PathA, PathAD, PathB} :
           \E got \in GetValues(<<prefix>>, zwStore, zwFailing) :
               /\ zwPrefix' = prefix
               /\ zwSnap' = IF got.err # Nil
                            THEN [NoSnap EXCEPT !.err = got.err]
                            ELSE [err |-> Nil, proceeded |-> TRUE,
                                  entries |-> got.vars,
                                  spawned |-> Spawned(got.vars, zwKeys)]
    /\ zwPc' = "done"
    /\ UNCHANGED <<zwStore, zwKeys, zwFailing, zwGot>>
    /\ UNCHANGED zwOther

(***************************************************************************)
(* ssm: Client.GetValues                                                   *)
(*                                                                         *)
(* The parameter store maps names to values.  A fault <<op, key>> makes    *)
(* the backend call op ("path" for GetParametersByPathPages, "get" for     *)
(* GetParameter) fail for that key with an error other than "not found".   *)
(***************************************************************************)

NameAX == <<"/", "a", "/", "x">>
NameAY == <<"/", "a", "/", "y">>
NameB == <<"/", "b">>
NameC == <<"/", "c">>
SgNames == {NameAX, NameAY, NameB}
SgStores == UNION {[S -> {"1"}] : S \in SUBSET SgNames}
SgKeyLists == SeqsUpTo({PathA, NameB, NameC}, MaxKeys)
SgFaultSets ==
    {{}} \cup {{<<op, k>>} : op \in {"path", "get"}, k \in {PathA, NameB, NameC}}

ErrInternalServer == <<"InternalServerError", 0>>
ErrParameterNotFound == <<"ParameterNotFound", 0>>

\* The parameters GetParametersByPath lists for a path, recursively: those
\* whose name lies under it in the hierarchy.
UnderPath(store, path) == {n \in DOMAIN store : HasPrefix(n, path \o <<"/">>)}

\* getParametersWithPrefix: the pages delivered go into the map; what
\* GetParametersByPathPages returns is not assigned to anything, and the
\* local err that is returned is still nil.
getParametersWithPrefix(prefix, store, faults) ==
    [params |-> IF <<"path", prefix>> \in faults THEN <<>>
                ELSE [n \in UnderPath(store, prefix) |-> store[n]],
     err |-> Nil]

\* getParameter
getParameter(name, store, faults) ==
    IF <<"get", name>> \in faults THEN [params |-> <<>>, err |-> ErrInternalServer]
    ELSE IF name \notin DOMAIN store
         THEN [params |-> <<>>, err |-> ErrParameterNotFound]
         ELSE [params |-> [n \in {name} |-> store[name]], err |-> Nil]

\* for k, v := range resp { vars[k] = v }
Merge(out, resp) ==
    [n \in DOMAIN out \cup DOMAIN resp |-> IF n \in DOMAIN resp THEN resp[n] ELSE out[n]]

\* The loop of ssm Client.GetValues from the n-th key on, out being vars.
RECURSIVE SsmGetValuesFrom(_, _, _, _, _)
SsmGetValuesFrom(keys, n, store, faults, out) ==
    IF n > Len(keys) THEN [vars |-> out, err |-> Nil]
    ELSE LET first == getParametersWithPrefix(keys[n], store, faults)
             second == getParameter(keys[n], store, faults)
         IN  IF first.err # Nil THEN [vars |-> out, err |-> first.err]
             ELSE IF first.params # <<>>
                  THEN SsmGetValuesFrom(keys, n + 1, store, faults,
                                        Merge(out, first.params))
             ELSE IF second.err # Nil /\ second.err # ErrParameterNotFound
                  THEN [vars |-> out, err |-> second.err]
             ELSE SsmGetValuesFrom(keys, n + 1, store, faults,
                                   Merge(out, second.params))

SsmGetValues(keys, store, faults) == SsmGetValuesFrom(keys, 1, store, faults, <<>>)

SgIdle ==
    /\ sgPc = "idle" /\ sgParams = <<>> /\ sgKeys = <<>> /\ sgFaults = {}
    /\ sgRet = NoGot

SgInit ==
    /\ sgPc = "call"
    /\ sgParams \in SgStores
    /\ sgKeys \in SgKeyLists
    /\ sgFaults \in SgFaultSets
    /\ sgRet = NoGot

\* vars, err := c.GetValues(keys)
SgGetValues ==
    /\ sgPc = "call"
    /\ sgRet' = SsmGetValues(sgKeys, sgParams, sgFaults)
    /\ sgPc' = "done"
    /\ UNCHANGED <<sgParams, sgKeys, sgFaults>>
    /\ UNCHANGED <<bootVars, rwVars, flVars, ssmVars, zkVars, zwVars>>

(***************************************************************************)
(* Specifications                                                          *)
(***************************************************************************)

InitBoot == BootInit /\ RwIdle /\ FlIdle /\ SsmIdle /\ ZkIdle /\ ZwIdle /\ SgIdle
NextBoot == Probe \/ BootGiveUp
SpecBoot == InitBoot /\ [][NextBoot]_vars

InitRancherWatch == BootIdle /\ RwInit /\ FlIdle /\ SsmIdle /\ ZkIdle /\ ZwIdle /\ SgIdle
NextRancherWatch == RancherWatch
SpecRancherWatch == InitRancherWatch /\ [][NextRancherWatch]_vars

InitFlatten == BootIdle /\ RwIdle /\ FlInit /\ SsmIdle /\ ZkIdle /\ ZwIdle /\ SgIdle
NextFlatten == FlattenOnce \/ FlattenAgain
SpecFlatten == InitFlatten /\ [][NextFlatten]_vars

InitFlattenAny == BootIdle /\ RwIdle /\ FlInitAny /\ SsmIdle /\ ZkIdle /\ ZwIdle /\ SgIdle
SpecFlattenAny == InitFlattenAny /\ [][NextFlatten]_vars
InitSsm == BootIdle /\ RwIdle /\ FlIdle /\ SsmInit /\ ZkIdle /\ ZwIdle /\ SgIdle
NextSsm ==
    \/ PutRecord
    \/ SsmDescribeFails
    \/ SsmDescribe
    \/ SsmGetShardIterator
    \/ SsmResume
    \/ SsmGetRecordsFails
    \/ SsmGetRecords
    \/ SsmStop
    \/ SsmCallAgain
SpecSsm == InitSsm /\ [][NextSsm]_vars
InitZk == BootIdle /\ RwIdle /\ FlIdle /\ SsmIdle /\ ZkInit /\ ZwIdle /\ SgIdle
WatchStep(g) ==
    \/ WatchGetW(g)
    \/ WatchChildrenW(g)
    \/ WatchKeyEvent(g)
    \/ WatchChildEvent(g)
    \/ WatchCancelled(g)
MainStep ==
    ZkGetValues \/ ZkSnapshot \/ ZkStopped \/ \E g \in Goroutines : ZkRelayed(g)
NextZk ==
    \/ ZkGetValues
    \/ ZkSnapshot
    \/ ZkStopped
    \/ \E g \in Goroutines : ZkRelayed(g)
    \/ \E g \in Goroutines : WatchGetW(g)
    \/ \E g \in Goroutines : WatchChildrenW(g)
    \/ \E g \in Goroutines : WatchKeyEvent(g)
    \/ \E g \in Goroutines : WatchChildEvent(g)
    \/ \E g \in Goroutines : WatchCancelled(g)
    \/ \E n \in ZkNodes : EnvSetData(n)
    \/ \E n \in ZkNodes : EnvDelete(n)
    \/ \E n \in ZkNodes : EnvCreate(n)
    \/ EnvStop
SpecZk == InitZk /\ [][NextZk]_vars

InitZkWalk == BootIdle /\ RwIdle /\ FlIdle /\ SsmIdle /\ ZkIdle /\ ZwInit /\ SgIdle
NextZkWalk == ZwGetValues \/ ZwWatchPrefix
SpecZkWalk == InitZkWalk /\ [][NextZkWalk]_vars

InitSsmGet == BootIdle /\ RwIdle /\ FlIdle /\ SsmIdle /\ ZkIdle /\ ZwIdle /\ SgInit
NextSsmGet == SgGetValues
SpecSsmGet == InitSsmGet /\ [][NextSsmGet]_vars

\* The Go scheduler runs every goroutine that can take a step: the caller
\* of WatchPrefix and each watch goroutine.  Nothing obliges the
\* environment to change the tree or to signal stop.
MaxGoroutines == Cardinality(ZkNodes)
FairSpecZk ==
    /\ SpecZk
    /\ WF_vars(MainStep)
    /\ \A g \in 1..MaxGoroutines : WF_vars(g \in Goroutines /\ WatchStep(g))

(***************************************************************************)
(* Properties                                                              *)
(***************************************************************************)

\* C6: rancher WatchPrefix returns the input cursor unchanged and a nil
\* error, whatever the cursor, the prefix and the keys are.
C6_RancherCursorUnchanged ==
    rwPc = "done" => rwRet.index = rwWaitIndex /\ rwRet.err = Nil

BootAllFailed == \A k \in 1..Len(bootOutcomes) : bootOutcomes[k] # Nil

\* C8: while every probe fails, the wait after the k-th failed probe is
\* 2^(k-1); probe k is made only if the waits before it sum to less than
\* MaxTime; the number of probes is bounded; and when the loop gives up the
\* ceiling has been reached and the error returned is the last probe's.
C8_BackoffAllFailing ==
    BootAllFailed =>
        /\ Len(bootWaits) = Len(bootOutcomes)
        /\ \A k \in 1..Len(bootWaits) : bootWaits[k] = Pow2(k - 1)
        /\ \A k \in 1..Len(bootOutcomes) :
               SumSeq(SubSeq(bootWaits, 1, k - 1)) < MaxTime
        /\ Len(bootOutcomes) <= MaxTime
        /\ bootPc = "done" =>
               /\ Len(bootOutcomes) > 0
               /\ SumSeq(bootWaits) >= MaxTime
               /\ bootRet = bootOutcomes[Len(bootOutcomes)]
               /\ bootRet # Nil

\* An endpoint that failed every probe, the last two with different errors,
\* and the loop has given up.
C8_Witness ==
    /\ bootPc = "done"
    /\ BootAllFailed
    /\ Len(bootOutcomes) >= 2
    /\ bootOutcomes[Len(bootOutcomes)] # bootOutcomes[Len(bootOutcomes) - 1]
    /\ bootRet = bootOutcomes[Len(bootOutcomes)]

BootSucceeded ==
    /\ bootPc = "done"
    /\ Len(bootOutcomes) > 0
    /\ bootOutcomes[Len(bootOutcomes)] = Nil

\* C9: when probe N is the first to succeed, construction returns nil with
\* exactly N probes made (no probe follows the success), a wait after each
\* of the N-1 failed probes and none after probe N.
C9_SucceedsAtProbeN ==
    BootSucceeded =>
        /\ bootRet = Nil
        /\ \A k \in 1..(Len(bootOutcomes) - 1) : bootOutcomes[k] # Nil
        /\ Len(bootWaits) = Len(bootOutcomes) - 1

\* Construction succeeded at the third probe, after two failures.
C9_Witness ==
    /\ BootSucceeded
    /\ Len(bootOutcomes) = 3
    /\ bootOutcomes[1] # Nil
    /\ bootOutcomes[2] # Nil
    /\ bootRet = Nil

\* C10: two flattenings of the same tree give the same flat map, whatever
\* order each ranges over the entries of the objects in.
C10_FlattenDeterministic ==
    flPc = "done" => flFirst = flSecond

\* C4: the second call, given the first call's cursor, is delivered no
\* record the first call was delivered, and asks for the LATEST iterator
\* only if that cursor is empty.
C4_ResumeNoRedelivery ==
    ssmCall = 2 =>
        /\ ssmFetched[2] \cap ssmFetched[1] = {}
        /\ ssmLatest[2] => ssmWaitIndex[2] = EmptyCursor

\* Both calls were delivered records, the first started from LATEST and
\* returned a cursor, the second resumed from it.
C4_Witness ==
    /\ ssmCall = 2
    /\ ssmPc = "done"
    /\ ssmLatest[1]
    /\ ~ssmLatest[2]
    /\ ssmWaitIndex[2] = ssmRet[1].cursor
    /\ ssmFetched[1] # {}
    /\ ssmFetched[2] # {}

\* C5: after a failed call that returns a cursor, resuming at that cursor
\* loses nothing: every record the failed call was delivered but did not
\* examine lies at or after the returned cursor, where the resumed call
\* starts fetching.
C5_FailureCursorLosesNothing ==
    (ssmCall = 2 /\ ssmRet[1].err # Nil /\ ssmWaitIndex[2] # EmptyCursor) =>
        \A i \in ssmFetched[1] \ ssmExamined[1] : i >= Position(ssmWaitIndex[2])

Sending(g) == gPc[g] \in {"senderr1", "senderr2", "sendev"}

\* C1: after a return on the stop signal the error is nil and no watch
\* goroutine of the call is left blocked in a send on respChan, which
\* nobody receives from any more.
C1_StopPathNoLeak ==
    (zkPc = "done" /\ zkExit = "stop") =>
        /\ zkRet.err = Nil
        /\ \A g \in Goroutines : ~Sending(g)

\* C2: once a node matching a filter key has changed (data set, deleted or
\* created) while the call is blocked after its snapshot, the call returns
\* even if stop is never signalled.
C2_RelevantChangeWakes ==
    (zkPc = "select" /\ zkRelChanged) ~> (zkPc = "done" \/ zkStop)

\* C3 as stated: when a subscribed snapshot key had its value changed
\* before stop fired, the call returns a nil error.
C3_LeafChangeReturnsNil ==
    (zkPc = "done" /\ zkLeafChanged) => zkRet.err = Nil

\* GetW or ChildrenW of goroutine g returned an error.
SubscriptionFailed(g) ==
    \/ gPc[g] # "getw" /\ gKeyCh[g] = "nil"
    \/ gPc[g] \in {"senderr2", "select", "sendev", "done"} /\ gChildCh[g] = "nil"

\* C3 as amended: when a subscribed snapshot key had its value changed
\* before stop fired, the call returns, and its error is nil unless it is
\* the error of a watch goroutine whose GetW or ChildrenW failed.
C3_LeafChangeReturns ==
    /\ zkLeafChanged ~> (zkPc = "done")
    /\ []((zkPc = "done" /\ zkLeafChanged /\ zkRet.err # Nil) =>
              /\ zkExit = "resp"
              /\ \E g \in Goroutines : SubscriptionFailed(g))

\* The value of a subscribed snapshot key changed, stop was never
\* signalled, and the call returned the relayed event with a nil error.
C3_Witness ==
    /\ zkLeafChanged
    /\ ~zkStop
    /\ zkPc = "done"
    /\ zkExit = "resp"
    /\ zkRet.err = Nil

\* C7: on both exits of the blocking wait (stop signal, relayed response)
\* the returned cursor is the input cursor.
C7_CursorUnchanged ==
    (zkPc = "done" /\ zkExit \in {"stop", "resp"}) => zkRet.cursor = zkWaitIndex

\* The path segment the array rule gives the element item at zero-based
\* index i: its "name" when it is an object with one, else the index.
ClaimedSegment(i, item) ==
    IF item[1] = "obj" /\ \E e \in {item[2][j] : j \in 1..Len(item[2])} :
                              e[1] = "name" /\ e[2][1] = "str"
    THEN (CHOOSE e \in {item[2][j] : j \in 1..Len(item[2])} : e[1] = "name")[2][2]
    ELSE Itoa(i)

\* The keys of the flat map of val rooted at root: one per recognized leaf,
\* object fields under their key and array elements under ClaimedSegment.
RECURSIVE ExpectedKeys(_, _)
ExpectedKeys(root, val) ==
    CASE val[1] = "obj" ->
           UNION {ExpectedKeys(root \o "/" \o val[2][j][1], val[2][j][2]) :
                      j \in 1..Len(val[2])}
      [] val[1] = "arr" ->
           UNION {ExpectedKeys(root \o "/" \o ClaimedSegment(j - 1, val[2][j]),
                               val[2][j]) : j \in 1..Len(val[2])}
      [] val[1] \in {"bool", "str", "num", "null"} -> {root}
      [] OTHER -> {}

RegionsExample ==
    <<"arr", <<Obj2("name", <<"str", "eu">>, "val", <<"num", 1>>),
               Obj2("name", <<"str", "us">>, "val", <<"num", 2>>)>> >>

\* C11: the keys of a flattened tree are those of its leaves with every
\* array element that is an object with a "name" under root/name and every
\* other element (primitive, array, object without "name") under
\* root/index; the two named regions give no key under /regions/0 or
\* /regions/1.
C11_ArraySegments ==
    flPc # "first" =>
        /\ \A root \in FlatRoots :
               DOMAIN flFirst.vars = ExpectedKeys(root, flTree)
        /\ flTree = RegionsExample =>
               DOMAIN flFirst.vars = {"/regions/eu/name", "/regions/eu/val",
                                      "/regions/us/name", "/regions/us/val"}

\* The two named regions have been flattened.
C11_Witness ==
    /\ flPc # "first"
    /\ flTree = RegionsExample
    /\ "/regions/us/val" \in DOMAIN flFirst.vars
    /\ flFirst.vars["/regions/us/val"] = "2"

\* C19: flattening never aborts, whatever the tree holds and wherever: an
\* unrecognized value gives no entry and every recognized leaf elsewhere
\* is emitted, also when the "name" of an array element is not a string.
C19_FlattenTotal ==
    flPc # "first" =>
        /\ ~flFirst.panic
        /\ \A root \in FlatRoots :
               ExpectedKeys(root, flTree) \subseteq DOMAIN flFirst.vars

\* Whether the node a lies above the node k.
IsAncestor(a, k) ==
    Len(a) < Len(k) /\ SubSeq(k, 1, Len(a)) = a /\ k[Len(a) + 1] = "/"

\* The nodes of the tree at or under p that have no children.
LeavesUnder(store, p) ==
    {n \in DOMAIN store :
        /\ n = p \/ IsAncestor(p, n)
        /\ ~\E m \in DOMAIN store : IsAncestor(n, m)}

ZwStripped == {StripWildcard(zwKeys[i]) : i \in 1..Len(zwKeys)}

\* C12: on an unchanging tree with no backend failure, a GetValues that
\* succeeds returns exactly the leaves at or under its prefixes (the "/*"
\* suffix stripped), each with its value, and nothing for a node that has
\* children; with /a/d/h the only leaf, GetValues(["/a/*"]) is that leaf.
C12_ExactlyLeaves ==
    (zwPc # "call" /\ zwFailing = {}) =>
        /\ zwGot.err = Nil <=> ZwStripped \subseteq DOMAIN zwStore
        /\ zwGot.err = Nil =>
               LET leaves == UNION {LeavesUnder(zwStore, p) : p \in ZwStripped}
               IN  zwGot.vars = [n \in leaves |-> zwStore[n]]
        /\ (DOMAIN zwStore = {PathA, PathAD, PathADH} /\ zwKeys = <<PathA \o <<"/", "*">> >>)
               => zwGot = [vars |-> [n \in {PathADH} |-> "h"], err |-> Nil]

\* GetValues of /a/* and /b on the tree with leaves /a/d/h, /a/d/k, /a/x, /b.
C12_Witness ==
    /\ zwPc # "call"
    /\ zwFailing = {}
    /\ zwKeys = <<PathA \o <<"/", "*">>, PathB>>
    /\ DOMAIN zwStore = ZwNodes
    /\ DOMAIN zwGot.vars = {PathADH, PathADK, PathAX, PathB}
    /\ zwGot.err = Nil

\* C13: when an operation of the backend fails on a node the walk reaches,
\* at whatever depth under the prefix, GetValues returns an error, and a
\* WatchPrefix whose snapshot met the failure returns it instead of going
\* on with a partial snapshot.
C13_WalkFailureSurfaced ==
    \A f \in zwFailing :
        /\ (/\ zwPc # "call"
            /\ ZwStripped \subseteq DOMAIN zwStore
            /\ \E p \in ZwStripped : f \in DOMAIN zwStore /\ (f = p \/ IsAncestor(p, f)))
               => zwGot.err # Nil
        /\ (/\ zwPc = "done"
            /\ zwPrefix \in DOMAIN zwStore
            /\ f \in DOMAIN zwStore /\ (f = zwPrefix \/ IsAncestor(zwPrefix, f)))
               => (zwSnap.err # Nil /\ ~zwSnap.proceeded)

\* The targets the target rule gives: every entry with a filter key as a
\* string prefix, and every directory above such an entry except "/".
ExpectedTargets(entries, keys) ==
    LET matching == {k \in DOMAIN entries :
                         \E i \in 1..Len(keys) : HasPrefix(k, keys[i])}
    IN  matching \cup UNION {{SubSeq(k, 1, n) : n \in {m \in 1..(Len(k) - 1) :
                                                        k[m + 1] = "/"}} : k \in matching}

\* C16: the goroutines a WatchPrefix starts watch exactly the snapshot keys
\* that have a filter key as a string prefix and the directories above
\* them except "/", one goroutine per target.
C16_WatchTargets ==
    (zwPc = "done" /\ zwSnap.proceeded) =>
        /\ {zwSnap.spawned[i] : i \in 1..Len(zwSnap.spawned)}
               = ExpectedTargets(zwSnap.entries, zwKeys)
        /\ \A i, j \in 1..Len(zwSnap.spawned) :
               zwSnap.spawned[i] = zwSnap.spawned[j] => i = j

\* Two matching leaves under the same directories and one leaf that matches
\* no filter key.
C16_Witness ==
    /\ zwPc = "done"
    /\ zwSnap.proceeded
    /\ zwPrefix = PathA
    /\ zwKeys = <<PathAD>>
    /\ DOMAIN zwSnap.entries = {PathADH, PathADK, PathAX}
    /\ Len(zwSnap.spawned) = 4

\* Both subscriptions of goroutine h were established.
Subscribed(h) == gKeyCh[h] # "nil" /\ gChildCh[h] # "nil"

PartialFailure ==
    /\ \E g \in Goroutines : SubscriptionFailed(g)
    /\ \E h \in Goroutines : Subscribed(h)

\* C14 as stated: a call that returns without a stop signal while one of
\* its goroutines has failed to subscribe and another is subscribed
\* returns a subscription error, the cancel signal given.
C14_PartialFailureReturnsError ==
    [][(zkPc = "select" /\ zkPc' = "done" /\ ~zkStop /\ PartialFailure)
           => (zkRet'.err # Nil /\ zkCancel')]_vars

\* C14 as amended: once a goroutine has failed to subscribe the call
\* returns; leaving stop aside, it returns the subscription error unless
\* what it received was the change event of a sibling, and every return
\* gives the cancel signal.
C14_PartialFailureReturns ==
    /\ (zkPc = "select" /\ \E g \in Goroutines : SubscriptionFailed(g))
           ~> (zkPc = "done")
    /\ [][(zkPc = "select" /\ zkPc' = "done" /\ ~zkStop /\ PartialFailure)
              => /\ zkCancel'
                 /\ \/ zkRet'.err # Nil
                    \/ \E h \in Goroutines : gPc[h] = "sendev" /\ gPc'[h] # "sendev"]_vars

\* The call returned a subscription error without stop; a sibling that was
\* subscribed has been cancelled.
C14_Witness ==
    /\ zkPc = "done"
    /\ zkExit = "resp"
    /\ ~zkStop
    /\ zkRet.err # Nil
    /\ \E g \in Goroutines : SubscriptionFailed(g)
    /\ \E h \in Goroutines : Subscribed(h) /\ gPc[h] = "done"

\* C15: a watch goroutine starts at most one send on respChan.
C15_OneShot ==
    \A g \in Goroutines : gSends[g] <= 1

\* C17: once stop has been signalled to a call that has been round its
\* loop, the call is delivered no further record: it returns at the latest
\* at the boundary before its next fetch.
C17_StopBeforeNextFetch ==
    [][(ssmCall > 0 /\ ssmStop /\ ssmFetched[ssmCall] # {} /\ ssmCall' = ssmCall)
           => ssmFetched' = ssmFetched]_vars

\* Call c has returned.
SsmReturned(c) == c < ssmCall \/ (c = ssmCall /\ ssmPc = "done")

MaxOf(S) == CHOOSE x \in S : \A y \in S : y <= x

\* C20: a call returns a nil error only when the last record it decoded
\* is an event whose name has a filter key as a prefix, and then its cursor
\* is the continuation token of the batch that record came in, the
\* position after the last record the call was delivered; with no filter
\* key it never returns a nil error.
C20_NoSpuriousWakeup ==
    \A c \in 1..ssmCall :
        (SsmReturned(c) /\ ssmRet[c].err = Nil) =>
            /\ ssmKeys # <<>>
            /\ ssmExamined[c] # {}
            /\ LET r == ssmStream[MaxOf(ssmExamined[c])]
               IN  /\ r[1] = "event"
                   /\ \E i \in 1..Len(ssmKeys) : HasPrefix(r[2], ssmKeys[i])
            /\ ssmRet[c].cursor = Iterator(MaxOf(ssmFetched[c]) + 1)

\* The first call returned a nil error on a match that was not the last
\* record of its batch, after a record that did not match.
C20_Witness ==
    /\ SsmReturned(1)
    /\ ssmRet[1].err = Nil
    /\ Cardinality(ssmExamined[1]) >= 2
    /\ MaxOf(ssmExamined[1]) < MaxOf(ssmFetched[1])

\* k is one of the keys of the call.
SgReached(k) == \E i \in 1..Len(sgKeys) : sgKeys[i] = k

\* What a call without faults returns for key k: the parameters under the
\* path k, or when there are none the parameter named k if it exists.
SgExpected(k) ==
    IF UnderPath(sgParams, k) # {} THEN UnderPath(sgParams, k)
    ELSE {k} \cap DOMAIN sgParams

\* C18: the path-prefix fetch comes first and the single-name fetch only
\* when it yields nothing; "not found" from the single-name fetch is
\* swallowed and the final error is nil; any other error, of the
\* path-prefix fetch or of the single-name fetch, is returned.
C18_ErrorPolicy ==
    sgPc = "done" =>
        /\ sgFaults = {} =>
               /\ sgRet.err = Nil
               /\ DOMAIN sgRet.vars = UNION {SgExpected(sgKeys[i]) : i \in 1..Len(sgKeys)}
        /\ \A k \in {PathA, NameB, NameC} :
               /\ (<<"path", k>> \in sgFaults /\ SgReached(k)) => sgRet.err # Nil
               /\ (<<"get", k>> \in sgFaults /\ SgReached(k) /\ UnderPath(sgParams, k) = {})
                      => sgRet.err # Nil

====
